---- MODULE Spec2Model ----
(***************************************************************************)
(* Model of dashboard.py: the streamlit script that loads the online       *)
(* retail CSV, cleans it, filters it by country and derives the KPI, chart,*)
(* RFM and Pareto tables.  One script run is a sequence of steps (pc); a   *)
(* filter change or a page refresh reruns the script from the top, while   *)
(* the st.cache_data cache of load_data() survives across runs.            *)
(*                                                                         *)
(* A DataFrame is a sequence of records; every row carries its pandas      *)
(* index label in the field idx, which dropna / boolean masks / sort_values*)
(* preserve.  Floating point values are modelled exactly: products and sums*)
(* as integers, quotients as pairs <<numerator, denominator>>.             *)
(***************************************************************************)
EXTENDS Integers, Sequences, FiniteSets, TLC

----------------------------------------------------------------------------
(* Bounds of the model *)

\* longest CSV file considered (number of data rows)
MaxRows == 2

\* read_csv calls after which no further rerun is started
MaxReads == 2

----------------------------------------------------------------------------
(* Generic helpers *)

Range(s) == {s[i] : i \in 1..Len(s)}

RECURSIVE SumSeq(_)
SumSeq(s) == IF s = <<>> THEN 0 ELSE Head(s) + SumSeq(Tail(s))

\* column `col` of DataFrame df as a sequence
Column(df, col) == [i \in 1..Len(df) |-> df[i][col]]

\* A boolean-mask row selection df[mask] is SelectSeq(df, mask): it keeps the
\* order of the rows and their index labels.

\* Series.max() / Series.min() over a non-empty set of integers
MaxOf(S) == CHOOSE x \in S : \A y \in S : y <= x

\* a quotient a / b kept exact; b = 0 gives numpy's nan, written <<0, 0>>
NaNQ == <<0, 0>>
Quot(a, b) == IF b = 0 THEN NaNQ ELSE <<a, b>>
QLeq(p, q) == p[1] * q[2] <= q[1] * p[2]
QEq(p, q) == p[1] * q[2] = q[1] * p[2]

\* groupby(key)[metric].sum(): one value per key present
GroupSum(df, key, metric) ==
    [k \in {r[key] : r \in Range(df)} |->
        SumSeq(Column(SelectSeq(df, LAMBDA r : r[key] = k), metric))]

\* groupby(key)[col].nunique()
GroupNUnique(df, key, col) ==
    [k \in {r[key] : r \in Range(df)} |->
        Cardinality({r[col] : r \in {x \in Range(df) : x[key] = k}})]

----------------------------------------------------------------------------
(* The input file: rows of online_retail_II.csv *)

\* pandas' missing value in the float column 'Customer ID'
NaN == -1

\* invoice headers: every line of an invoice shares customer, country, time
InvoiceHeaders ==
    { [Invoice |-> 1, CustomerID |-> 10, Country |-> "United Kingdom",
       InvoiceDate |-> [y |-> 2023, m |-> 1, d |-> 31, h |-> 10]],
      [Invoice |-> 2, CustomerID |-> 2, Country |-> "United Kingdom",
       InvoiceDate |-> [y |-> 2023, m |-> 2, d |-> 1, h |-> 9]],
      [Invoice |-> 3, CustomerID |-> 2, Country |-> "France",
       InvoiceDate |-> [y |-> 2023, m |-> 2, d |-> 4, h |-> 15]],
      [Invoice |-> 4, CustomerID |-> NaN, Country |-> "United Kingdom",
       InvoiceDate |-> [y |-> 2023, m |-> 2, d |-> 1, h |-> 12]] }

\* invoice lines: product, signed quantity, unit price
InvoiceLines ==
    { [Description |-> "MUG", Quantity |-> 1, Price |-> 2],
      [Description |-> "LAMP", Quantity |-> 2, Price |-> 5],
      [Description |-> "MUG", Quantity |-> -1, Price |-> 2],
      [Description |-> "LAMP", Quantity |-> 0, Price |-> 5] }

RawRows ==
    { [Invoice |-> hd.Invoice, Description |-> ln.Description,
       Quantity |-> ln.Quantity, InvoiceDate |-> hd.InvoiceDate,
       Price |-> ln.Price, CustomerID |-> hd.CustomerID,
       Country |-> hd.Country] : hd \in InvoiceHeaders, ln \in InvoiceLines }

CsvFiles == UNION {[1..n -> RawRows] : n \in 0..MaxRows}

\* country names in the order sorted() gives them
CountryNames == <<"France", "United Kingdom">>

----------------------------------------------------------------------------
(* Conversions used by the cleaning step *)

\* str(int): the decimal digits of a non-negative integer
RECURSIVE IntToStr(_)
IntToStr(n) == IF n < 10 THEN <<n>> ELSE IntToStr(n \div 10) \o <<n % 10>>

\* Python string order on digit strings (lexicographic)
RECURSIVE StrLess(_, _)
StrLess(s, t) ==
    IF s = <<>> THEN t # <<>>
    ELSE IF t = <<>> THEN FALSE
    ELSE IF Head(s) # Head(t) THEN Head(s) < Head(t)
    ELSE StrLess(Tail(s), Tail(t))

\* days since 1970-01-01 of a proleptic Gregorian date
DaysFromCivil(y, m, d) ==
    LET yy == IF m <= 2 THEN y - 1 ELSE y
        era == yy \div 400
        yoe == yy - era * 400
        mp == IF m > 2 THEN m - 3 ELSE m + 9
        doy == (153 * mp + 2) \div 5 + d - 1
        doe == yoe * 365 + yoe \div 4 - yoe \div 100 + doy
    IN era * 146097 + doe - 719468

\* pd.to_datetime: the timestamp, in whole hours since the epoch
ToDatetime(t) == DaysFromCivil(t.y, t.m, t.d) * 24 + t.h

DayNames == <<"Monday", "Tuesday", "Wednesday", "Thursday", "Friday",
              "Saturday", "Sunday">>

\* Timestamp.day_name(); 1970-01-01 was a Thursday
DayName(t) == DayNames[((DaysFromCivil(t.y, t.m, t.d) + 3) % 7) + 1]

----------------------------------------------------------------------------
(* load_data: cleaning and the Sales / Returns split *)

\* df.dropna(subset=['Customer ID']) keeps the rows with a customer
HasCustomer(r) == r.CustomerID # NaN

\* variant of SalesMask: quantity compared with >= instead of >
SalesMaskNonNegative(r) == r.Quantity >= 0

\* rows of the Sales partition
SalesMask(r) == r.Quantity > 0

\* rows of the Returns partition
ReturnsMask(r) == r.Quantity < 0

Abs(n) == IF n < 0 THEN -n ELSE n

\* one cleaned row from raw row r read at 0-based file position i
CleanRow(r, i) ==
    [idx |-> i,
     Invoice |-> r.Invoice,
     Description |-> r.Description,
     Quantity |-> r.Quantity,
     InvoiceDate |-> ToDatetime(r.InvoiceDate),
     Price |-> r.Price,
     CustomerID |-> IntToStr(r.CustomerID),
     Country |-> r.Country,
     TotalAmount |-> r.Quantity * r.Price,
     MonthYear |-> <<r.InvoiceDate.y, r.InvoiceDate.m>>,
     Hour |-> r.InvoiceDate.h,
     DayOfWeek |-> DayName(r.InvoiceDate)]

\* the frame read_csv returns: the raw rows labelled 0..n-1
ReadCsv(rows) == [i \in 1..Len(rows) |-> [idx |-> i - 1, raw |-> rows[i]]]

\* body of load_data() after a successful read
CleanAndSplit(rows) ==
    LET df == ReadCsv(rows)
        kept == SelectSeq(df, LAMBDA x : HasCustomer(x.raw))
        df_clean == [i \in 1..Len(kept) |-> CleanRow(kept[i].raw, kept[i].idx)]
        sales == SelectSeq(df_clean, SalesMask)
        rets == SelectSeq(df_clean, ReturnsMask)
    IN [sales |-> sales,
        returns |-> [i \in 1..Len(rets) |->
                        [rets[i] EXCEPT !.Quantity = Abs(@)]]]

\* pd.DataFrame(), pd.DataFrame(): what load_data returns when the file is missing
EmptyResult == [sales |-> <<>>, returns |-> <<>>]

----------------------------------------------------------------------------
(* Sidebar: the country filter *)

\* sorted(df_sales['Country'].unique()): the options of the multiselect
SortedCountries(sales) ==
    SelectSeq(CountryNames, LAMBDA c : c \in {r.Country : r \in Range(sales)})

\* default=['United Kingdom']
DefaultCountries == {"United Kingdom"}

\* variant of IsIn: the mask negated
IsNotIn(df, selected) == SelectSeq(df, LAMBDA r : r.Country \notin selected)

\* df[df['Country'].isin(selected)]
IsIn(df, selected) == SelectSeq(df, LAMBDA r : r.Country \in selected)

\* `if selected_countries: ... else: ...` applied to one frame
FilterByCountry(df, selected) ==
    IF selected # {} THEN IsIn(df, selected) ELSE df

\* df_filtered.to_csv(index=False): the rows without their index label
ToCsv(df) ==
    [i \in 1..Len(df) |->
        [f \in (DOMAIN df[i]) \ {"idx"} |-> df[i][f]]]

----------------------------------------------------------------------------
(* KPI metrics *)

\* df_filtered['TotalAmount'].sum()
TotalRevenue(df) == SumSeq(Column(df, "TotalAmount"))

\* df_filtered['Invoice'].nunique()
TotalOrders(df) == Cardinality({r.Invoice : r \in Range(df)})

\* variant of AvgOrderValue: the quotient without its guard
AvgOrderValueUnguarded(revenue, orders) == Quot(revenue, orders)

\* total_revenue / total_orders if total_orders > 0 else 0
AvgOrderValue(revenue, orders) ==
    IF orders > 0 THEN Quot(revenue, orders) ELSE <<0, 1>>

KPIs(df) ==
    [total_revenue |-> TotalRevenue(df),
     total_orders |-> TotalOrders(df),
     avg_order_value |-> AvgOrderValue(TotalRevenue(df), TotalOrders(df))]

----------------------------------------------------------------------------
(* Chart tables *)

EmptyTable == [k \in {} |-> 0]

\* Q6: per country revenue, distinct invoices and their quotient
CountryStats(df) ==
    LET total == GroupSum(df, "Country", "TotalAmount")
        orders == GroupNUnique(df, "Country", "Invoice")
    IN [c \in DOMAIN total |->
           [TotalAmount |-> total[c], Invoice |-> orders[c],
            AOV |-> Quot(total[c], orders[c])]]

\* variant of GlobalSalesFrame: the map computed from the filtered frame
FilteredSalesFrame(sales, filtered) == filtered

\* Q3: the frame the map is computed from
GlobalSalesFrame(sales, filtered) == sales

\* Q10: days_order, the index the weekday means are reindexed to
DaysOrder == {"Monday", "Tuesday", "Wednesday", "Thursday", "Friday", "Sunday"}

\* Q10: groupby('DayOfWeek')['TotalAmount'].mean().reindex(days_order)
WeekdaySales(df) ==
    [dn \in DaysOrder |->
        LET rows == SelectSeq(df, LAMBDA r : r.DayOfWeek = dn)
        IN Quot(SumSeq(Column(rows, "TotalAmount")), Len(rows))]

----------------------------------------------------------------------------
(* Q7: the RFM table *)

\* df_filtered['InvoiceDate'].max() + pd.Timedelta(days=1), in hours
SnapshotDate(df) == MaxOf({r.InvoiceDate : r \in Range(df)}) + 24

\* the group keys in the order groupby sorts them (string order)
SortedCustomers(df) ==
    LET S == {r.CustomerID : r \in Range(df)}
    IN [i \in 1..Cardinality(S) |->
           CHOOSE c \in S : Cardinality({x \in S : StrLess(x, c)}) = i - 1]

\* groupby('Customer ID').agg(...).reset_index() with the renamed columns
RFMTable(df) ==
    LET keys == SortedCustomers(df)
    IN [i \in 1..Len(keys) |->
           LET rows == SelectSeq(df, LAMBDA r : r.CustomerID = keys[i])
           IN [idx |-> i - 1,
               CustomerID |-> keys[i],
               Recency |->
                   (SnapshotDate(df)
                      - MaxOf({r.InvoiceDate : r \in Range(rows)})) \div 24,
               Frequency |-> Cardinality({r.Invoice : r \in Range(rows)}),
               Monetary |-> SumSeq(Column(rows, "TotalAmount"))]]

SegmentLabels == <<"Low", "Mid", "High", "VIP">>

\* the values of a column in ascending order
SortAsc(vals) ==
    [j \in 1..Len(vals) |->
        CHOOSE v \in Range(vals) :
            /\ Cardinality({i \in 1..Len(vals) : vals[i] < v}) < j
            /\ j <= Cardinality({i \in 1..Len(vals) : vals[i] <= v})]

\* Series.quantile(k/4) with linear interpolation, times 4
Quartile4(vals, k) ==
    LET srt == SortAsc(vals)
        pos == (Len(vals) - 1) * k
        i == pos \div 4
        r == pos % 4
    IN IF r = 0 THEN 4 * srt[i + 1]
       ELSE (4 - r) * srt[i + 1] + r * srt[i + 2]

\* algos.unique(bins) under duplicates='drop': the distinct bin edges
UniqueBins(vals) == {Quartile4(vals, k) : k \in 0..4}

\* pd.qcut(x, q=4, labels=[4 labels], duplicates='drop'): the labels, or the
\* ValueError "Bin labels must be one fewer than the number of bin edges"
\* that _bins_to_cuts raises once duplicate edges were dropped
QCut(vals) ==
    LET bins == UniqueBins(vals)
    IN IF Len(SegmentLabels) # Cardinality(bins) - 1
       THEN [ok |-> FALSE, labels |-> <<>>]
       ELSE [ok |-> TRUE,
             labels |->
               [i \in 1..Len(vals) |->
                  LET below == Cardinality({b \in bins : b < 4 * vals[i]})
                  IN SegmentLabels[IF below = 0 THEN 1 ELSE below]]]

----------------------------------------------------------------------------
(* Q9: the Pareto table *)

\* rfm.sort_values(by='Monetary', ascending=False): the row orders a sort may
\* give (rows of equal Monetary in either order)
SortedByMonetary(rfm) ==
    {s \in [1..Len(rfm) -> Range(rfm)] :
        /\ Range(s) = Range(rfm)
        /\ \A i \in 1..Len(rfm) - 1 : s[i].Monetary >= s[i + 1].Monetary}

\* 100 * (pd.Series(range(n)) + 1) / n assigned as a column: the Series is
\* indexed 0..n-1 and pandas aligns it on the index label of each row
CustomerRankPct(pos, row, n) == Quot(100 * (row.idx + 1), n)

\* the columns added to rfm_sorted
ParetoTable(s) ==
    LET total == SumSeq(Column(s, "Monetary"))
    IN [i \in 1..Len(s) |->
           LET cum == SumSeq(Column(SubSeq(s, 1, i), "Monetary"))
           IN [idx |-> s[i].idx,
               CustomerID |-> s[i].CustomerID,
               Recency |-> s[i].Recency,
               Frequency |-> s[i].Frequency,
               Monetary |-> s[i].Monetary,
               Segment |-> s[i].Segment,
               Cumulative_Revenue |-> cum,
               Revenue_Pct |-> Quot(100 * cum, total),
               Customer_Rank_Pct |-> CustomerRankPct(i, s[i], Len(s))]]

----------------------------------------------------------------------------
(* State *)

VARIABLES
    file,                 \* the CSV file: "ok", "missing" or "unreadable"
    csv,                  \* its data rows
    cache,                \* st.cache_data entry of load_data()
    reads,                \* number of pd.read_csv calls so far
    widget,               \* session value of the multiselect, once set
    pc,                   \* next step of the current script run
    executed,             \* steps the current run has completed
    error,                \* exception that ended the current run
    df_sales, df_returns,
    all_countries, selected_countries,
    df_filtered, df_returns_filtered,
    csv_data,
    kpi,
    tab1, tab2, tab3,
    rfm, rfm_sorted

env == <<file, csv>>
session == <<cache, reads, widget>>
frames == <<df_sales, df_returns>>
sidebar == <<all_countries, selected_countries>>
filtered == <<df_filtered, df_returns_filtered>>
outputs == <<csv_data, kpi, tab1, tab2, tab3, rfm, rfm_sorted>>
vars == <<env, session, pc, executed, error, frames, sidebar, filtered, outputs>>

NoKPI == [total_revenue |-> 0, total_orders |-> 0, avg_order_value |-> <<0, 1>>]
NoTab1 == [monthly_sales |-> EmptyTable, top_products |-> EmptyTable,
           country_sales |-> EmptyTable]
NoTab2 == [hourly_sales |-> EmptyTable, top_returns |-> EmptyTable,
           country_stats |-> EmptyTable]
NoTab3 == [monthly_active |-> EmptyTable, weekday_sales |-> EmptyTable]

\* the script's variables before a run has assigned them
FreshRun ==
    /\ executed = {}
    /\ error = "none"
    /\ df_sales = <<>> /\ df_returns = <<>>
    /\ all_countries = <<>> /\ selected_countries = {}
    /\ df_filtered = <<>> /\ df_returns_filtered = <<>>
    /\ csv_data = <<>>
    /\ kpi = NoKPI
    /\ tab1 = NoTab1 /\ tab2 = NoTab2 /\ tab3 = NoTab3
    /\ rfm = <<>> /\ rfm_sorted = <<>>

Init ==
    /\ file \in {"ok", "missing", "unreadable"}
    /\ csv \in CsvFiles
    /\ file # "ok" => csv = <<>>
    /\ cache = [full |-> FALSE, value |-> EmptyResult]
    /\ reads = 0
    /\ widget = [set |-> FALSE, value |-> {}]
    /\ pc = "load"
    /\ FreshRun

----------------------------------------------------------------------------
(* Steps of one script run *)

\* a step that ends normally and hands over to step `next`
Goto(step, next) ==
    /\ pc' = next
    /\ executed' = executed \cup {step}
    /\ error' = error

\* an uncaught exception: streamlit shows it and the run ends
Raise(exc) ==
    /\ pc' = "crashed"
    /\ executed' = executed
    /\ error' = exc

\* variant of CacheHit: load_data without its cache decorator
NeverCached(c) == FALSE

\* @st.cache_data: whether the call is answered from the cache
CacheHit(c) == c.full

\* lines 17-46: df_sales, df_returns = load_data()
LoadData ==
    /\ pc = "load"
    /\ UNCHANGED <<env, widget, sidebar, filtered, outputs>>
    /\ IF CacheHit(cache)
       THEN /\ df_sales' = cache.value.sales
            /\ df_returns' = cache.value.returns
            /\ UNCHANGED <<cache, reads>>
            /\ Goto("load", "guard")
       ELSE /\ reads' = reads + 1
            /\ IF file = "unreadable"
               THEN /\ Raise("ReadError")
                    /\ UNCHANGED <<cache, frames>>
               ELSE LET result == IF file = "missing" THEN EmptyResult
                                  ELSE CleanAndSplit(csv)
                    IN /\ cache' = [full |-> TRUE, value |-> result]
                       /\ df_sales' = result.sales
                       /\ df_returns' = result.returns
                       /\ Goto("load", "guard")

\* lines 49-50: if df_sales.empty: st.stop()
CheckLoaded ==
    /\ pc = "guard"
    /\ IF df_sales = <<>>
       THEN /\ pc' = "stopped"
            /\ executed' = executed \cup {"guard"}
            /\ error' = error
       ELSE Goto("guard", "sidebar")
    /\ UNCHANGED <<env, session, frames, sidebar, filtered, outputs>>

\* lines 58-60: the multiselect; a default outside the options raises
Sidebar ==
    /\ pc = "sidebar"
    /\ LET options == SortedCountries(df_sales)
       IN /\ all_countries' = options
          /\ IF DefaultCountries \subseteq Range(options)
             THEN /\ selected_countries' =
                        IF widget.set THEN widget.value ELSE DefaultCountries
                  /\ Goto("sidebar", "filter")
             ELSE /\ selected_countries' = selected_countries
                  /\ Raise("StreamlitAPIException")
    /\ UNCHANGED <<env, session, frames, filtered, outputs>>

\* lines 63-68
ApplyFilter ==
    /\ pc = "filter"
    /\ df_filtered' = FilterByCountry(df_sales, selected_countries)
    /\ df_returns_filtered' = FilterByCountry(df_returns, selected_countries)
    /\ Goto("filter", "export")
    /\ UNCHANGED <<env, session, frames, sidebar, outputs>>

\* lines 75-84
Export ==
    /\ pc = "export"
    /\ csv_data' = ToCsv(df_filtered)
    /\ Goto("export", "kpi")
    /\ UNCHANGED <<env, session, frames, sidebar, filtered,
                   kpi, tab1, tab2, tab3, rfm, rfm_sorted>>

\* lines 89-96
KPIMetrics ==
    /\ pc = "kpi"
    /\ kpi' = KPIs(df_filtered)
    /\ Goto("kpi", "tab1")
    /\ UNCHANGED <<env, session, frames, sidebar, filtered,
                   csv_data, tab1, tab2, tab3, rfm, rfm_sorted>>

\* lines 106-131: Q1 monthly trend, Q2 top products, Q3 map.  head(10) keeps
\* every group here: there are fewer than ten products.
Tab1Overview ==
    /\ pc = "tab1"
    /\ tab1' =
         [monthly_sales |-> GroupSum(df_filtered, "MonthYear", "TotalAmount"),
          top_products |-> GroupSum(df_filtered, "Description", "TotalAmount"),
          country_sales |-> GroupSum(GlobalSalesFrame(df_sales, df_filtered),
                                     "Country", "TotalAmount")]
    /\ Goto("tab1", "tab2")
    /\ UNCHANGED <<env, session, frames, sidebar, filtered,
                   csv_data, kpi, tab2, tab3, rfm, rfm_sorted>>

\* lines 134-163: Q4 hourly sales, Q5 top returns, Q6 AOV by country
Tab2Behavior ==
    /\ pc = "tab2"
    /\ tab2' =
         [hourly_sales |-> GroupSum(df_filtered, "Hour", "TotalAmount"),
          top_returns |-> GroupSum(df_returns_filtered, "Description", "Quantity"),
          country_stats |-> CountryStats(df_filtered)]
    /\ Goto("tab2", "rfm")
    /\ UNCHANGED <<env, session, frames, sidebar, filtered,
                   csv_data, kpi, tab1, tab3, rfm, rfm_sorted>>

\* lines 170-176: snapshot_date and the RFM table.  On an empty frame the
\* snapshot date is NaT and the aggregation has nothing to work on.
RFMStep ==
    /\ pc = "rfm"
    /\ IF df_filtered = <<>>
       THEN /\ rfm' = rfm
            /\ Raise("EmptyFrame")
       ELSE /\ rfm' = [i \in 1..Len(RFMTable(df_filtered)) |->
                         [idx |-> RFMTable(df_filtered)[i].idx,
                          CustomerID |-> RFMTable(df_filtered)[i].CustomerID,
                          Recency |-> RFMTable(df_filtered)[i].Recency,
                          Frequency |-> RFMTable(df_filtered)[i].Frequency,
                          Monetary |-> RFMTable(df_filtered)[i].Monetary,
                          Segment |-> "unset"]]
            /\ Goto("rfm", "segment")
    /\ UNCHANGED <<env, session, frames, sidebar, filtered,
                   csv_data, kpi, tab1, tab2, tab3, rfm_sorted>>

\* line 179: rfm['Segment'] = pd.qcut(...)
Segment ==
    /\ pc = "segment"
    /\ LET cut == QCut(Column(rfm, "Monetary"))
       IN IF cut.ok
          THEN /\ rfm' = [i \in 1..Len(rfm) |->
                            [rfm[i] EXCEPT !.Segment = cut.labels[i]]]
               /\ Goto("segment", "tab3")
          ELSE /\ rfm' = rfm
               /\ Raise("ValueError")
    /\ UNCHANGED <<env, session, frames, sidebar, filtered,
                   csv_data, kpi, tab1, tab2, tab3, rfm_sorted>>

\* lines 187-201: Q8 monthly active customers, Q10 best working day
Tab3Charts ==
    /\ pc = "tab3"
    /\ tab3' =
         [monthly_active |-> GroupNUnique(df_filtered, "MonthYear", "CustomerID"),
          weekday_sales |-> WeekdaySales(df_filtered)]
    /\ Goto("tab3", "pareto")
    /\ UNCHANGED <<env, session, frames, sidebar, filtered,
                   csv_data, kpi, tab1, tab2, rfm, rfm_sorted>>

\* lines 205-214: Q9 Pareto table
Pareto ==
    /\ pc = "pareto"
    /\ \E s \in SortedByMonetary(rfm) : rfm_sorted' = ParetoTable(s)
    /\ Goto("pareto", "done")
    /\ UNCHANGED <<env, session, frames, sidebar, filtered,
                   csv_data, kpi, tab1, tab2, tab3, rfm>>

----------------------------------------------------------------------------
(* Reruns of the script *)

RunEnded == pc \in {"done", "stopped", "crashed"}

\* a rerun starts the script from the top with its variables unassigned
StartRun ==
    /\ pc' = "load"
    /\ executed' = {}
    /\ error' = "none"
    /\ df_sales' = <<>> /\ df_returns' = <<>>
    /\ all_countries' = <<>> /\ selected_countries' = {}
    /\ df_filtered' = <<>> /\ df_returns_filtered' = <<>>
    /\ csv_data' = <<>>
    /\ kpi' = NoKPI
    /\ tab1' = NoTab1 /\ tab2' = NoTab2 /\ tab3' = NoTab3
    /\ rfm' = <<>> /\ rfm_sorted' = <<>>

\* the user changes the selection of the rendered multiselect
FilterChange ==
    /\ RunEnded
    /\ "sidebar" \in executed
    /\ reads < MaxReads
    /\ \E sel \in SUBSET Range(all_countries) :
          /\ sel # selected_countries
          /\ widget' = [set |-> TRUE, value |-> sel]
    /\ StartRun
    /\ UNCHANGED <<env, cache, reads>>

\* the page is reloaded: a new session of the same server process
Refresh ==
    /\ RunEnded
    /\ reads < MaxReads
    /\ widget' = [set |-> FALSE, value |-> {}]
    /\ StartRun
    /\ UNCHANGED <<env, cache, reads>>

Next ==
    \/ LoadData
    \/ CheckLoaded
    \/ Sidebar
    \/ ApplyFilter
    \/ Export
    \/ KPIMetrics
    \/ Tab1Overview
    \/ Tab2Behavior
    \/ RFMStep
    \/ Segment
    \/ Tab3Charts
    \/ Pareto
    \/ FilterChange
    \/ Refresh

Spec == Init /\ [][Next]_vars

----------------------------------------------------------------------------
(* computeKPIs as a function of an arbitrary filtered frame *)

InitKPI ==
    /\ file = "ok"
    /\ csv \in CsvFiles
    /\ cache = [full |-> TRUE, value |-> CleanAndSplit(csv)]
    /\ reads = 1
    /\ widget = [set |-> FALSE, value |-> {}]
    /\ pc = "kpi"
    /\ executed = {}
    /\ error = "none"
    /\ df_sales = CleanAndSplit(csv).sales
    /\ df_returns = CleanAndSplit(csv).returns
    /\ all_countries = SortedCountries(df_sales)
    /\ selected_countries \in SUBSET Range(CountryNames)
    /\ df_filtered = FilterByCountry(df_sales, selected_countries)
    /\ df_returns_filtered = FilterByCountry(df_returns, selected_countries)
    /\ csv_data = <<>>
    /\ kpi = NoKPI
    /\ tab1 = NoTab1 /\ tab2 = NoTab2 /\ tab3 = NoTab3
    /\ rfm = <<>> /\ rfm_sorted = <<>>

NextKPI == KPIMetrics

SpecKPI == InitKPI /\ [][NextKPI]_vars

----------------------------------------------------------------------------
(* Properties *)

\* the raw rows (by file position) that the cleaning keeps as sales
RawSales ==
    {i \in 1..Len(csv) : csv[i].CustomerID # NaN /\ csv[i].Quantity > 0}

\* the raw rows that the cleaning keeps as returns
RawReturns ==
    {i \in 1..Len(csv) : csv[i].CustomerID # NaN /\ csv[i].Quantity < 0}

\* the raw sales rows that pass the current country selection
RawSelected ==
    {i \in RawSales :
        selected_countries = {} \/ csv[i].Country \in selected_countries}

\* quantity * price summed over the raw rows I
RawAmount(I) ==
    SumSeq([i \in 1..Len(csv) |->
               IF i \in I THEN csv[i].Quantity * csv[i].Price ELSE 0])

\* whether frame df holds the row read at file position i
Holds(df, i) == \E k \in 1..Len(df) : df[k].idx = i - 1

\* C1: after a successful load a raw record is in Sales iff it has a customer
\* identifier and quantity > 0, in Returns iff it has a customer identifier
\* and quantity < 0, never in both, and every row of either partition is a
\* raw record.
C1_Partition ==
    ("load" \in executed /\ file = "ok") =>
        /\ \A i \in 1..Len(csv) :
              /\ Holds(df_sales, i) <=> i \in RawSales
              /\ Holds(df_returns, i) <=> i \in RawReturns
              /\ ~(Holds(df_sales, i) /\ Holds(df_returns, i))
        /\ \A k \in 1..Len(df_sales) :
              /\ df_sales[k].idx + 1 \in 1..Len(csv)
              /\ df_sales[k].Invoice = csv[df_sales[k].idx + 1].Invoice
        /\ \A k \in 1..Len(df_returns) :
              /\ df_returns[k].idx + 1 \in 1..Len(csv)
              /\ df_returns[k].Invoice = csv[df_returns[k].idx + 1].Invoice
        /\ Len(df_sales) = Cardinality(RawSales)
        /\ Len(df_returns) = Cardinality(RawReturns)

\* a load that kept at least one row and dropped at least one
C1_Witness ==
    /\ "load" \in executed /\ file = "ok"
    /\ Len(df_sales) + Len(df_returns) < Len(csv)
    /\ Len(df_sales) + Len(df_returns) > 0

\* a load that dropped a row of quantity 0 and a row without customer
C1_WitnessZero ==
    /\ "load" \in executed /\ file = "ok"
    /\ \E i \in 1..Len(csv) : csv[i].CustomerID # NaN /\ csv[i].Quantity = 0
    /\ \E i \in 1..Len(csv) : csv[i].CustomerID = NaN /\ csv[i].Quantity > 0

Hundred == <<100, 1>>

\* C2: in the Pareto table Revenue_Pct is non-decreasing in Customer_Rank_Pct
\* and the customer at rank 100% has Revenue_Pct 100.
C2_ParetoMonotone ==
    "pareto" \in executed =>
        /\ \A a, b \in Range(rfm_sorted) :
              QLeq(a.Customer_Rank_Pct, b.Customer_Rank_Pct)
                  => QLeq(a.Revenue_Pct, b.Revenue_Pct)
        /\ \A a \in Range(rfm_sorted) :
              QEq(a.Customer_Rank_Pct, Hundred) => QEq(a.Revenue_Pct, Hundred)

\* C3: the customer at position i of the Monetary-descending order has
\* Customer_Rank_Pct = 100 * i / N.
C3_RankByPosition ==
    "pareto" \in executed =>
        \A i \in 1..Len(rfm_sorted) :
            QEq(rfm_sorted[i].Customer_Rank_Pct, <<100 * i, Len(rfm_sorted)>>)

\* C4: total_revenue is the sum of TotalAmount, total_orders the number of
\* distinct invoices, avg_order_value their quotient when there is an order
\* and 0 otherwise; an empty frame gives 0, 0, 0.
C4_KPIs ==
    "kpi" \in executed =>
        LET orders == {csv[i].Invoice : i \in RawSelected}
        IN /\ kpi.total_revenue = RawAmount(RawSelected)
           /\ kpi.total_orders = Cardinality(orders)
           /\ orders # {} =>
                 kpi.avg_order_value =
                     <<RawAmount(RawSelected), Cardinality(orders)>>
           /\ orders = {} => kpi.avg_order_value = <<0, 1>>
           /\ kpi.avg_order_value[2] # 0
           /\ df_filtered = <<>> =>
                 kpi = [total_revenue |-> 0, total_orders |-> 0,
                        avg_order_value |-> <<0, 1>>]

\* KPIs computed on an empty frame
C4_WitnessEmpty == "kpi" \in executed /\ df_filtered = <<>> /\ df_sales # <<>>

\* KPIs computed on two lines of one invoice
C4_Witness ==
    /\ "kpi" \in executed
    /\ Len(df_filtered) = 2
    /\ kpi.total_orders = 1

\* C5: selecting every country the filter offers leaves Sales and Returns
\* unfiltered.
C5_FullSelection ==
    ("filter" \in executed /\ selected_countries = Range(all_countries)) =>
        /\ df_filtered = df_sales
        /\ df_returns_filtered = df_returns

\* C6: when the file cannot be located or read, load_data returns two empty
\* frames and no step after the guard is executed.
C6_FailedLoad ==
    (file # "ok" /\ pc # "load") =>
        /\ error = "none"
        /\ "load" \in executed
        /\ df_sales = <<>> /\ df_returns = <<>>
        /\ executed \subseteq {"load", "guard"}
        /\ pc \in {"guard", "stopped"}

\* C7: the segment assignment never fails: once the RFM table exists every
\* customer gets one of the four labels, in ascending order of Monetary.
C7_SegmentNeverFails ==
    /\ error # "ValueError"
    /\ "segment" \in executed =>
          \A a, b \in Range(rfm) :
              /\ a.Segment \in Range(SegmentLabels)
              /\ a.Monetary <= b.Monetary =>
                    \E i, j \in 1..Len(SegmentLabels) :
                        /\ i <= j
                        /\ SegmentLabels[i] = a.Segment
                        /\ SegmentLabels[j] = b.Segment

\* C8: once load_data's result is cached the file is not read again, the
\* cached result never changes, every load returns it, and in every run that
\* shows the filter the file has been read exactly once.
C8_LoadOnce ==
    /\ [](cache.full => reads = 1)
    /\ []("sidebar" \in executed => (cache.full /\ reads = 1))
    /\ []("load" \in executed =>
             (df_sales = cache.value.sales /\ df_returns = cache.value.returns))
    /\ [][cache.full => (cache' = cache /\ reads' = reads)]_vars

\* a run started by a filter change whose load was answered from the cache
C8_Witness ==
    /\ widget.set
    /\ "filter" \in executed
    /\ reads = 1
    /\ df_filtered # df_sales

\* C9: whenever the snapshot date, the RFM table or the Pareto table is
\* computed the filtered Sales frame is not empty.
C9_RFMPrecondition ==
    /\ (pc \in {"rfm", "segment", "tab3", "pareto"} \/ "rfm" \in executed)
          => df_filtered # <<>>
    /\ error # "EmptyFrame"

\* the RFM table computed under a selection that removed rows
C9_Witness ==
    /\ "rfm" \in executed
    /\ selected_countries # {}
    /\ Len(df_filtered) < Len(df_sales)

\* sum of quantity * price over the raw rows I of country c
RawAmountIn(I, c) == RawAmount({i \in I : csv[i].Country = c})

\* C10: the per-country map is the sum of TotalAmount per country over all
\* Sales whatever the selection, while the KPI, monthly, product, hourly, AOV,
\* RFM and Pareto tables are computed over the filtered Sales.
C10_MapUnfiltered ==
    /\ "tab1" \in executed =>
          /\ DOMAIN tab1.country_sales = {csv[i].Country : i \in RawSales}
          /\ \A c \in DOMAIN tab1.country_sales :
                tab1.country_sales[c] = RawAmountIn(RawSales, c)
          /\ DOMAIN tab1.monthly_sales =
                {<<csv[i].InvoiceDate.y, csv[i].InvoiceDate.m>> : i \in RawSelected}
          /\ \A k \in DOMAIN tab1.monthly_sales :
                tab1.monthly_sales[k] =
                    RawAmount({i \in RawSelected :
                        <<csv[i].InvoiceDate.y, csv[i].InvoiceDate.m>> = k})
          /\ DOMAIN tab1.top_products = {csv[i].Description : i \in RawSelected}
          /\ \A k \in DOMAIN tab1.top_products :
                tab1.top_products[k] =
                    RawAmount({i \in RawSelected : csv[i].Description = k})
    /\ "kpi" \in executed => kpi.total_revenue = RawAmount(RawSelected)
    /\ "tab2" \in executed =>
          /\ DOMAIN tab2.hourly_sales = {csv[i].InvoiceDate.h : i \in RawSelected}
          /\ \A k \in DOMAIN tab2.hourly_sales :
                tab2.hourly_sales[k] =
                    RawAmount({i \in RawSelected : csv[i].InvoiceDate.h = k})
          /\ DOMAIN tab2.country_stats = {csv[i].Country : i \in RawSelected}
          /\ \A c \in DOMAIN tab2.country_stats :
                tab2.country_stats[c].TotalAmount = RawAmountIn(RawSelected, c)
    /\ "rfm" \in executed =>
          SumSeq(Column(rfm, "Monetary")) = RawAmount(RawSelected)
    /\ "pareto" \in executed =>
          rfm_sorted[Len(rfm_sorted)].Cumulative_Revenue = RawAmount(RawSelected)

\* the map computed while the selection hides a country that has sales
C10_Witness ==
    /\ "tab1" \in executed
    /\ selected_countries # {}
    /\ \E c \in DOMAIN tab1.country_sales : c \notin selected_countries

====
